---------------------------- MODULE Spec2Model ----------------------------
(***************************************************************************)
(* A model of openapi-fetch (src/src/index.ts): createClient and the       *)
(* request routine coreFetch shared by the eight verb callables.           *)
(*                                                                         *)
(* Text that the code inspects character by character (URLs, path and      *)
(* query values) is a sequence of one-character strings.  A character      *)
(* outside ASCII is one element named by its code point ("U+00E9").        *)
(* Text that the code only stores and compares (header names and values,   *)
(* response bodies, option values) is a TLA+ string.                       *)
(* A JavaScript value is a record of its type tag t and its payload, in a  *)
(* field named after the kind of payload.                                  *)
(***************************************************************************)
EXTENDS Naturals, Sequences, FiniteSets, TLC

VARIABLES
    clients,    \* client id -> the closure createClient built, or NoClient
    calls,      \* call id -> the activation of coreFetch for that call
    probe       \* the input and result of one application of a pure routine

vars == <<clients, calls, probe>>

-----------------------------------------------------------------------------
(* JavaScript values                                                       *)

Undefined == [t |-> "undefined"]
Null == [t |-> "null"]
Num(n) == [t |-> "num", n |-> n]
\* a string the code takes apart, as its characters
Txt(chars) == [t |-> "str", chars |-> chars]
\* a string the code only stores, passes on or compares
Str(text) == [t |-> "str", text |-> text]

IsNullish(x) == x.t \in {"undefined", "null"}

\* a ?? b
Coalesce(a, b) == IF IsNullish(a) THEN b ELSE a

\* a destructuring default, { k = d }: taken when the property is undefined
Default(a, d) == IF a.t = "undefined" THEN d ELSE a

RECURSIVE Digits(_)
Digits(n) ==
    IF n < 10
    THEN <<CASE n = 0 -> "0" [] n = 1 -> "1" [] n = 2 -> "2" [] n = 3 -> "3"
             [] n = 4 -> "4" [] n = 5 -> "5" [] n = 6 -> "6" [] n = 7 -> "7"
             [] n = 8 -> "8" [] OTHER -> "9">>
    ELSE Digits(n \div 10) \o Digits(n % 10)

\* String(v) and `${v}` for the values a path or query mapping holds
String(x) ==
    CASE x.t = "str" -> x.chars
      [] x.t = "num" -> Digits(x.n)
      [] x.t = "null" -> <<"n", "u", "l", "l">>
      [] OTHER -> <<"u", "n", "d", "e", "f", "i", "n", "e", "d">>

-----------------------------------------------------------------------------
(* Text                                                                    *)

RECURSIVE Flatten(_)
Flatten(ss) == IF ss = <<>> THEN <<>> ELSE Head(ss) \o Flatten(Tail(ss))

\* s.indexOf(pat): the first position at which pat occurs in s, 0 when none
IndexOf(s, pat) ==
    LET hits == {i \in 1..(Len(s) + 1) :
                    /\ i + Len(pat) - 1 <= Len(s)
                    /\ SubSeq(s, i, i + Len(pat) - 1) = pat}
    IN  IF hits = {} THEN 0 ELSE CHOOSE i \in hits : \A j \in hits : i <= j

Contains(s, pat) == IndexOf(s, pat) # 0

\* the number of positions at which pat occurs in s
Occurrences(s, pat) ==
    Cardinality({i \in 1..Len(s) :
                    /\ i + Len(pat) - 1 <= Len(s)
                    /\ SubSeq(s, i, i + Len(pat) - 1) = pat})

\* a variant of replace that substitutes every occurrence, left to right
RECURSIVE replaceAll(_, _, _)
replaceAll(s, pat, rep) ==
    LET i == IndexOf(s, pat)
    IN  IF i = 0 \/ pat = <<>> THEN s
        ELSE SubSeq(s, 1, i - 1) \o rep
                \o replaceAll(SubSeq(s, i + Len(pat), Len(s)), pat, rep)

\* String.prototype.replace(pat, rep) with a string pattern: only the first
\* occurrence is substituted.  The replacement text here is always the result
\* of encodeURIComponent, which holds no "$", so no replacement pattern
\* ("$&", "$1", ...) can occur in it.
replace(s, pat, rep) ==
    LET i == IndexOf(s, pat)
    IN  IF i = 0 THEN s
        ELSE SubSeq(s, 1, i - 1) \o rep \o SubSeq(s, i + Len(pat), Len(s))

WhiteSpace == {" ", "TAB"}

\* String.prototype.trim
RECURSIVE TrimStart(_)
TrimStart(s) ==
    IF s # <<>> /\ Head(s) \in WhiteSpace THEN TrimStart(Tail(s)) ELSE s

RECURSIVE TrimEnd(_)
TrimEnd(s) ==
    IF s # <<>> /\ s[Len(s)] \in WhiteSpace
    THEN TrimEnd(SubSeq(s, 1, Len(s) - 1)) ELSE s

trim(s) == TrimEnd(TrimStart(s))

\* the characters encodeURIComponent leaves as they are
UriUnreserved ==
    {"a", "b", "c", "p", "q", "v", "x", "y", "z", "A", "B", "C", "E", "F",
     "0", "1", "2", "3", "4", "5", "6", "7", "8", "9",
     "-", "_", ".", "!", "~", "*", "'", "(", ")"}

\* the UTF-8 percent-encoding of one character
PercentEncode(c) ==
    CASE c = " " -> <<"%", "2", "0">>
      [] c = "TAB" -> <<"%", "0", "9">>
      [] c = "!" -> <<"%", "2", "1">>
      [] c = "$" -> <<"%", "2", "4">>
      [] c = "%" -> <<"%", "2", "5">>
      [] c = "&" -> <<"%", "2", "6">>
      [] c = "'" -> <<"%", "2", "7">>
      [] c = "(" -> <<"%", "2", "8">>
      [] c = ")" -> <<"%", "2", "9">>
      [] c = "+" -> <<"%", "2", "B">>
      [] c = "," -> <<"%", "2", "C">>
      [] c = "/" -> <<"%", "2", "F">>
      [] c = ":" -> <<"%", "3", "A">>
      [] c = "=" -> <<"%", "3", "D">>
      [] c = "?" -> <<"%", "3", "F">>
      [] c = "{" -> <<"%", "7", "B">>
      [] c = "}" -> <<"%", "7", "D">>
      [] c = "~" -> <<"%", "7", "E">>
      [] c = "U+00E9" -> <<"%", "C", "3", "%", "A", "9">>

encodeURIComponent(s) ==
    Flatten([i \in 1..Len(s) |->
        IF s[i] \in UriUnreserved THEN <<s[i]>> ELSE PercentEncode(s[i])])

-----------------------------------------------------------------------------
(* Objects: a JavaScript object is its entries in property order           *)

Obj(entries) == [t |-> "obj", entries |-> entries]
Entry(k, v) == [k |-> k, v |-> v]

Keys(o) == {o.entries[i].k : i \in 1..Len(o.entries)}

\* the characters of a property name
KeyChars(k) ==
    CASE k = "a" -> <<"a">>
      [] k = "b" -> <<"b">>
      [] k = "q" -> <<"q">>
      [] k = "v" -> <<"v">>
      [] k = "{a" -> <<"{", "a">>

\* o[k], undefined when o has no such property
Prop(o, k) ==
    IF k \in Keys(o)
    THEN (o.entries[CHOOSE i \in 1..Len(o.entries) : o.entries[i].k = k]).v
    ELSE Undefined

\* o?.k
OptProp(o, k) == IF IsNullish(o) THEN Undefined ELSE Prop(o, k)

\* { ...a, k: v }: an existing property keeps its place and takes the value
Assign(o, k, v) ==
    IF k \in Keys(o)
    THEN Obj([i \in 1..Len(o.entries) |->
                IF o.entries[i].k = k THEN Entry(k, v) ELSE o.entries[i]])
    ELSE Obj(Append(o.entries, Entry(k, v)))

\* { ...a, ...b }; spreading undefined or null adds nothing
RECURSIVE SpreadEntries(_, _)
SpreadEntries(a, es) ==
    IF es = <<>> THEN a
    ELSE SpreadEntries(Assign(a, Head(es).k, Head(es).v), Tail(es))

Spread(a, b) == IF IsNullish(b) THEN a ELSE SpreadEntries(a, b.entries)

\* const { k1, k2, ...rest } = o: the entries of o whose key is not in ks
Rest(o, ks) == Obj(SelectSeq(o.entries, LAMBDA e : e.k \notin ks))

-----------------------------------------------------------------------------
(* URL (src/src/index.ts, lines 53 to 62)                                  *)

\* the byte serializer of application/x-www-form-urlencoded
FormUnreserved == (UriUnreserved \ {"!", "~", "'", "(", ")"})

urlencoded(s) ==
    Flatten([i \in 1..Len(s) |->
        IF s[i] \in FormUnreserved THEN <<s[i]>>
        ELSE IF s[i] = " " THEN <<"+">>
        ELSE PercentEncode(s[i])])

\* new URLSearchParams(q).toString(): name=value pairs joined by "&"
RECURSIVE URLSearchParams(_)
URLSearchParams(es) ==
    IF es = <<>> THEN <<>>
    ELSE urlencoded(KeyChars(Head(es).k)) \o <<"=">> \o urlencoded(String(Head(es).v))
            \o (IF Tail(es) = <<>> THEN <<>> ELSE <<"&">> \o URLSearchParams(Tail(es)))

\* the serializer of the README: (q) => `v=${q.version}`, the query
\* property being named "v" here
readmeSerializer(q) == <<"v", "=">> \o String(Prop(q, "v"))

DefaultSerializer == [t |-> "fn", name |-> "URLSearchParams"]
ReadmeSerializer == [t |-> "fn", name |-> "readme"]

\* the call fn(q)
Invoke(fn, q) ==
    IF fn.name = "URLSearchParams" THEN URLSearchParams(q.entries) ELSE readmeSerializer(q)

\* for (const [k, v] of Object.entries(path)) finalURL = finalURL.replace(...)
RECURSIVE substitute(_, _)
substitute(finalURL, es) ==
    IF es = <<>> THEN finalURL
    ELSE substitute(
            replace(finalURL, <<"{">> \o KeyChars(Head(es).k) \o <<"}">>,
                    encodeURIComponent(String(Head(es).v))),
            Tail(es))

\* the concatenation with the slashes at the joint collapsed into one
concatURLNormalized(options, url) ==
    LET base == String(Coalesce(OptProp(options, "baseUrl"), Txt(<<>>)))
    IN  IF base # <<>> /\ base[Len(base)] = "/" /\ url # <<>> /\ Head(url) = "/"
        THEN base \o Tail(url)
        ELSE base \o url

\* `${options?.baseUrl ?? ''}${url}`
concatURL(options, url) == String(Coalesce(OptProp(options, "baseUrl"), Txt(<<>>))) \o url

\* if (params.path) ...
substitutedURL(options, url, params) ==
    IF IsNullish(Prop(params, "path")) THEN concatURL(options, url)
    ELSE substitute(concatURL(options, url), Prop(params, "path").entries)

\* the test of the earlier revision (src/unnamed/part_001, line 114):
\* if (query)
hasQueryAnyMapping(params) == ~IsNullish(Prop(params, "query"))

\* params.query && Object.keys(params.query).length
hasQuery(params) ==
    /\ ~IsNullish(Prop(params, "query"))
    /\ Len(Prop(params, "query").entries) # 0

\* The URL part of coreFetch: the URL given to fetch, and the serializer
\* invocations made on the way (the function and its argument, in order).
buildURL(options, url, fetchOptions) ==
    LET params == Default(Prop(fetchOptions, "params"), Obj(<<>>))
        querySerializer ==
            Default(Prop(fetchOptions, "querySerializer"), DefaultSerializer)
        substituted == substitutedURL(options, url, params)
    IN  IF hasQuery(params)
        THEN [finalURL |-> substituted \o <<"?">>
                              \o Invoke(querySerializer, Prop(params, "query")),
              serialized |-> <<[fn |-> querySerializer, q |-> Prop(params, "query")]>>]
        ELSE [finalURL |-> substituted, serialized |-> <<>>]

-----------------------------------------------------------------------------
(* Headers (the Fetch standard's Headers class, as the code uses it)       *)

\* a header name in lower case: Headers matches and stores names so
Lower(name) ==
    CASE name \in {"Content-Type", "content-type"} -> "content-type"
      [] name \in {"Cache-Control", "cache-control"} -> "cache-control"
      [] name \in {"Authorization", "authorization"} -> "authorization"
      [] name \in {"Content-Length", "content-length"} -> "content-length"
      [] name \in {"X-Custom-Header", "x-custom-header"} -> "x-custom-header"

\* the iteration order of a Headers object: by name
HeaderOrder ==
    <<"authorization", "cache-control", "content-length", "content-type",
      "x-custom-header">>

\* the conversion of a value to the ByteString a Headers object stores
ByteString(x) ==
    CASE x.t = "str" -> x.text
      [] x.t = "null" -> "null"
      [] x.t = "bool" -> IF x.b THEN "true" ELSE "false"
      [] OTHER -> "undefined"

\* A Headers object: lower-case name -> value.
EmptyHeaders == [n \in {} |-> ""]

HeadersSet(h, name, value) ==
    [n \in DOMAIN h \cup {Lower(name)} |-> IF n = Lower(name) THEN value ELSE h[n]]

HeadersDelete(h, name) == [n \in DOMAIN h \ {Lower(name)} |-> h[n]]

\* append: a second value for a name is joined to the first with ", "
HeadersAppend(h, name, value) ==
    IF Lower(name) \in DOMAIN h
    THEN HeadersSet(h, name, h[Lower(name)] \o ", " \o value)
    ELSE HeadersSet(h, name, value)

\* get: null when there is no header of that name
HeadersGet(h, name) == IF Lower(name) \in DOMAIN h THEN Str(h[Lower(name)]) ELSE Null

\* entries(): [name, value] pairs, the values being strings
HeadersEntries(h) ==
    LET present == SelectSeq(HeaderOrder, LAMBDA n : n \in DOMAIN h)
    IN  [i \in 1..Len(present) |-> Entry(present[i], Str(h[present[i]]))]

RECURSIVE FillHeaders(_, _)
FillHeaders(h, es) ==
    IF es = <<>> THEN h
    ELSE FillHeaders(HeadersAppend(h, Head(es).k, ByteString(Head(es).v)), Tail(es))

\* new Headers(init): init is undefined, a record of name -> value, or a
\* Headers object (which is copied)
Headers(init) ==
    CASE init.t = "undefined" -> EmptyHeaders
      [] init.t = "Headers" -> init.map
      [] OTHER -> FillHeaders(EmptyHeaders, init.entries)

HeadersObject(h) == [t |-> "Headers", map |-> h]

-----------------------------------------------------------------------------
(* createClient and coreFetch (src/src/index.ts, lines 46 to 84)           *)

DEFAULT_HEADERS == Obj(<<Entry("Content-Type", Str("application/json"))>>)

\* new Headers({ ...DEFAULT_HEADERS, ...(options?.headers ?? {}) })
defaultHeaders(options) ==
    Headers(Spread(Spread(Obj(<<>>), DEFAULT_HEADERS),
                   Coalesce(OptProp(options, "headers"), Obj(<<>>))))

\* for (const [k, v] of headerOverrides.entries()) ...
RECURSIVE applyOverrides(_, _)
applyOverrides(baseHeaders, es) ==
    IF es = <<>> THEN baseHeaders
    ELSE applyOverrides(
            IF IsNullish(Head(es).v)
            THEN HeadersDelete(baseHeaders, Head(es).k)
            ELSE HeadersSet(baseHeaders, Head(es).k, Head(es).v.text),
            Tail(es))

\* the headers of the request dispatched last, none before the first call
LastSent ==
    LET issued == {j \in DOMAIN calls : calls[j].pc # "idle"}
    IN  IF issued = {} THEN Undefined
        ELSE Prop(calls[CHOOSE j \in issued : \A k \in issued : k <= j].request.init,
                  "headers")

\* the header part with one working set kept from call to call, the
\* overrides being added to it
mergeHeadersShared(defaults, headers) ==
    LET baseHeaders == IF LastSent = Undefined THEN defaults ELSE LastSent.map
    IN  IF IsNullish(headers) THEN baseHeaders
        ELSE FillHeaders(baseHeaders, headers.entries)

\* The header part of coreFetch (lines 65 to 70): the Headers object sent.
mergeHeaders(defaults, headers) ==
    LET baseHeaders == Headers(HeadersObject(defaults))
        headerOverrides == Headers(headers)
    IN  applyOverrides(baseHeaders, HeadersEntries(headerOverrides))

\* JSON.stringify of a request body: a flat object of strings and numbers
RECURSIVE stringifyEntries(_)
stringifyEntries(es) ==
    IF es = <<>> THEN ""
    ELSE "\"" \o Head(es).k \o "\":"
            \o (IF Head(es).v.t = "num" THEN ToString(Head(es).v.n)
                ELSE "\"" \o Head(es).v.text \o "\"")
            \o (IF Tail(es) = <<>> THEN "" ELSE "," \o stringifyEntries(Tail(es)))

JSONstringify(x) ==
    CASE x.t = "undefined" -> Undefined
      [] x.t = "null" -> Str("null")
      [] x.t = "num" -> Str(ToString(x.n))
      [] x.t = "str" -> Str("\"" \o x.text \o "\"")
      [] OTHER -> Str("{" \o stringifyEntries(x.entries) \o "}")

\* line 78 without the test for a string: every body is given to
\* JSON.stringify
encodeBodyAlwaysJSON(requestBody) == JSONstringify(requestBody)

\* typeof requestBody === 'string' ? requestBody : JSON.stringify(requestBody)
encodeBody(requestBody) ==
    IF requestBody.t = "str" THEN requestBody ELSE JSONstringify(requestBody)

\* lines 74 to 76 with the two spreads in the other order:
\* { redirect: 'follow', ...init, ...options, headers, body }
requestConfigWins(client, url, fetchOptions) ==
    LET fo == IF IsNullish(fetchOptions) THEN Obj(<<>>) ELSE fetchOptions
        init == Rest(fo, {"headers", "body", "params", "querySerializer"})
        built == buildURL(client.options, url, fo)
        baseHeaders == mergeHeaders(client.defaultHeaders, Prop(fo, "headers"))
    IN  [url |-> built.finalURL,
         serialized |-> built.serialized,
         init |-> Assign(Assign(
                    Spread(Spread(Obj(<<Entry("redirect", Str("follow"))>>),
                                  init), client.options),
                    "headers", HeadersObject(baseHeaders)),
                    "body", encodeBody(Prop(fo, "body")))]

\* The arguments coreFetch gives to fetch (lines 53 to 79), with the
\* serializer invocations made while the URL was built.
request(client, url, fetchOptions) ==
    LET fo == IF IsNullish(fetchOptions) THEN Obj(<<>>) ELSE fetchOptions
        init == Rest(fo, {"headers", "body", "params", "querySerializer"})
        built == buildURL(client.options, url, fo)
        baseHeaders == mergeHeaders(client.defaultHeaders, Prop(fo, "headers"))
    IN  [url |-> built.finalURL,
         serialized |-> built.serialized,
         init |-> Assign(Assign(
                    Spread(Spread(Obj(<<Entry("redirect", Str("follow"))>>),
                                  client.options), init),
                    "headers", HeadersObject(baseHeaders)),
                    "body", encodeBody(Prop(fo, "body")))]

-----------------------------------------------------------------------------
(* Responses                                                               *)

Bool(b) == [t |-> "bool", b |-> b]
Error(name) == [t |-> "error", name |-> name]
SyntaxError == Error("SyntaxError")

\* an HTTP response as fetch resolves with it
Response(status, headers, body) ==
    [t |-> "Response", status |-> status, headers |-> headers, body |-> body]

\* Response.ok: the status is in the range 200 to 299
ok(response) == response.status \in 200..299

\* JSON.parse of a body text, on the texts a response carries here
JSONparse(text) ==
    CASE text = "{\"message\":\"x\"}" -> Obj(<<Entry("message", Str("x"))>>)
      [] text = "{}" -> Obj(<<>>)
      [] text = "[\"one\"]" -> [t |-> "arr", items |-> <<Str("one")>>]
      [] text = "null" -> Null
      [] text = "false" -> Bool(FALSE)
      [] text = "0" -> Num(0)
      [] text = "\"\"" -> Str("")
      [] OTHER -> SyntaxError

\* the rule of line 82 kept to the success branch
emptyBodyOkOnly(response) ==
    /\ ok(response)
    /\ \/ response.status = 204
       \/ HeadersGet(response.headers, "Content-Length") = Str("0")

\* status === 204 || headers.get('Content-Length') === '0' (line 82)
emptyBody(response) ==
    \/ response.status = 204
    \/ HeadersGet(response.headers, "Content-Length") = Str("0")

\* line 83 taking 200 for the only success
envelopeOnly200(response, body) ==
    IF response.status = 200
    THEN Obj(<<Entry("data", body), Entry("response", response)>>)
    ELSE Obj(<<Entry("error", body), Entry("response", response)>>)

\* line 83 without the test of response.ok
envelopeAlwaysData(response, body) ==
    Obj(<<Entry("data", body), Entry("response", response)>>)

\* response.ok ? { data: body, response } : { error: body, response } (line 83)
envelope(response, body) ==
    IF ok(response)
    THEN Obj(<<Entry("data", body), Entry("response", response)>>)
    ELSE Obj(<<Entry("error", body), Entry("response", response)>>)

-----------------------------------------------------------------------------
(* The state machine                                                       *)

MaxClients == 1
MaxCalls == 1

ClientIds == 1..MaxClients
CallIds == 1..MaxCalls

NoClient == Undefined

\* what createClient(options) closes over: options itself (the caller's
\* object, which the caller can still change) and the default headers
\* computed from it once; given is the value options had at construction
client(options) ==
    [t |-> "client", options |-> options, given |-> options,
     defaultHeaders |-> defaultHeaders(options)]

\* A call that has not been made.  fetched and parsed count the calls of
\* fetch and of response.json(); fetchError is what fetch rejected with,
\* response what it resolved with; result and reason are the outcome of the
\* promise the verb callable returned.
Idle ==
    [pc |-> "idle", client |-> 0, verb |-> "", url |-> <<>>, init |-> Undefined,
     request |-> Undefined, fetched |-> 0, fetchError |-> Undefined,
     response |-> Undefined, parsed |-> 0,
     result |-> Undefined, reason |-> Undefined]

Init ==
    /\ clients = [c \in ClientIds |-> NoClient]
    /\ calls = [i \in CallIds |-> Idle]
    /\ probe = Undefined

\* createClient with the default headers kept in one place for all clients:
\* building a client replaces the defaults of those built before
createClientShared(c, options) ==
    /\ clients[c] = NoClient
    /\ \A d \in DOMAIN clients : d < c => clients[d] # NoClient
    /\ clients' = [d \in DOMAIN clients |->
            IF d = c THEN client(options)
            ELSE IF clients[d] = NoClient THEN NoClient
            ELSE [clients[d] EXCEPT !.defaultHeaders = defaultHeaders(options)]]
    /\ UNCHANGED <<calls, probe>>

\* createClient(options); client ids are given out in order
createClient(c, options) ==
    /\ clients[c] = NoClient
    /\ \A d \in DOMAIN clients : d < c => clients[d] # NoClient
    /\ clients' = [clients EXCEPT ![c] = client(options)]
    /\ UNCHANGED <<calls, probe>>

\* coreFetch without the clone of line 65: the overrides are applied to the
\* default headers of the client themselves
coreFetchInPlace(i, c, verb, url, fetchOptions) ==
    /\ calls[i].pc = "idle"
    /\ \A j \in DOMAIN calls : j < i => calls[j].pc # "idle"
    /\ clients[c] # NoClient
    /\ calls' = [calls EXCEPT ![i] =
            [@ EXCEPT !.pc = "fetch", !.client = c, !.verb = verb, !.url = url,
                      !.init = fetchOptions,
                      !.request = request(clients[c], url, fetchOptions),
                      !.fetched = @ + 1]]
    /\ clients' = [clients EXCEPT ![c].defaultHeaders =
            mergeHeaders(@, OptProp(fetchOptions, "headers"))]
    /\ UNCHANGED probe

\* coreFetch up to its first await: the request is built and fetch is called;
\* call ids are given out in order
coreFetch(i, c, verb, url, fetchOptions) ==
    /\ calls[i].pc = "idle"
    /\ \A j \in DOMAIN calls : j < i => calls[j].pc # "idle"
    /\ clients[c] # NoClient
    /\ calls' = [calls EXCEPT ![i] =
            [@ EXCEPT !.pc = "fetch", !.client = c, !.verb = verb, !.url = url,
                      !.init = fetchOptions,
                      !.request = request(clients[c], url, fetchOptions),
                      !.fetched = @ + 1]]
    /\ UNCHANGED <<clients, probe>>

\* { method, ...init }: a method among the call options wins
withMethodDefault(init, method) == Spread(Obj(<<Entry("method", Str(method))>>), init)

\* { ...init, method }
withMethod(init, method) == Assign(Spread(Obj(<<>>), init), "method", Str(method))

\* The verb callables (lines 86 to 119)
get(i, c, url, init) == coreFetch(i, c, "get", url, withMethod(init, "GET"))
put(i, c, url, init) == coreFetch(i, c, "put", url, withMethod(init, "PUT"))
post(i, c, url, init) == coreFetch(i, c, "post", url, withMethod(init, "POST"))
del(i, c, url, init) == coreFetch(i, c, "del", url, withMethod(init, "DELETE"))
options(i, c, url, init) == coreFetch(i, c, "options", url, withMethod(init, "OPTIONS"))
head(i, c, url, init) == coreFetch(i, c, "head", url, withMethod(init, "HEAD"))
patch(i, c, url, init) == coreFetch(i, c, "patch", url, withMethod(init, "PATCH"))
trace(i, c, url, init) == coreFetch(i, c, "trace", url, withMethod(init, "TRACE"))

\* line 73 in a loop that calls fetch once more when the response is not ok
fetchResolvesRetrying(i, response) ==
    /\ calls[i].pc = "fetch"
    /\ calls' = [calls EXCEPT ![i] =
            IF ~ok(response) /\ calls[i].fetched < 2
            THEN [@ EXCEPT !.fetched = @ + 1]
            ELSE IF emptyBody(response)
            THEN [@ EXCEPT !.pc = "resolved", !.response = response,
                           !.result = envelope(response, Obj(<<>>))]
            ELSE [@ EXCEPT !.pc = "json", !.response = response,
                           !.parsed = @ + 1]]
    /\ UNCHANGED <<clients, probe>>

\* fetch resolves: line 82 either takes {} as the body and line 83 returns
\* the envelope, or line 82 calls response.json() and awaits it
fetchResolves(i, response) ==
    /\ calls[i].pc = "fetch"
    /\ calls' = [calls EXCEPT ![i] =
            IF emptyBody(response)
            THEN [@ EXCEPT !.pc = "resolved", !.response = response,
                           !.result = envelope(response, Obj(<<>>))]
            ELSE [@ EXCEPT !.pc = "json", !.response = response,
                           !.parsed = @ + 1]]
    /\ UNCHANGED <<clients, probe>>

\* line 73 with a catch that turns the failure into an error envelope
fetchRejectsCaught(i, reason) ==
    /\ calls[i].pc = "fetch"
    /\ calls' = [calls EXCEPT ![i] =
            [@ EXCEPT !.pc = "resolved", !.fetchError = reason,
                      !.result = Obj(<<Entry("error", reason)>>)]]
    /\ UNCHANGED <<clients, probe>>

\* fetch rejects: the await of line 73 throws and nothing catches it
fetchRejects(i, reason) ==
    /\ calls[i].pc = "fetch"
    /\ calls' = [calls EXCEPT ![i] =
            [@ EXCEPT !.pc = "rejected", !.fetchError = reason, !.reason = reason]]
    /\ UNCHANGED <<clients, probe>>

\* response.json() resolves with the parsed body: line 83 returns the envelope
jsonResolves(i) ==
    /\ calls[i].pc = "json"
    /\ JSONparse(calls[i].response.body) # SyntaxError
    /\ calls' = [calls EXCEPT ![i] =
            [@ EXCEPT !.pc = "resolved",
                      !.result = envelope(calls[i].response,
                                          JSONparse(calls[i].response.body))]]
    /\ UNCHANGED <<clients, probe>>

\* line 82 with a catch that takes {} for a body that does not parse
jsonRejectsFolded(i) ==
    /\ calls[i].pc = "json"
    /\ JSONparse(calls[i].response.body) = SyntaxError
    /\ calls' = [calls EXCEPT ![i] =
            [@ EXCEPT !.pc = "resolved",
                      !.result = envelope(calls[i].response, Obj(<<>>))]]
    /\ UNCHANGED <<clients, probe>>

\* response.json() rejects: the await of line 82 throws and nothing catches it
jsonRejects(i) ==
    /\ calls[i].pc = "json"
    /\ JSONparse(calls[i].response.body) = SyntaxError
    /\ calls' = [calls EXCEPT ![i] =
            [@ EXCEPT !.pc = "rejected", !.reason = SyntaxError]]
    /\ UNCHANGED <<clients, probe>>

-----------------------------------------------------------------------------
(* Spec: calls on a client, with every response the network can give       *)

SpecConfigs == {Undefined}

SpecUrls == {<<"/", "p", "/", "{", "a", "}">>}

SpecInits ==
    {Obj(<<Entry("params", Obj(<<Entry("path", Obj(<<Entry("a", Txt(<<"x">>))>>))>>))>>)}

Statuses == {200, 204, 404, 500}

BodyTexts == {"{\"message\":\"x\"}", "null", "false", "", "<html>"}

ResponseHeaders ==
    {EmptyHeaders,
     HeadersSet(EmptyHeaders, "Content-Length", "0"),
     HeadersSet(EmptyHeaders, "Content-Length", "15")}

\* The responses the network can give: one with status 204 or a declared
\* length of zero has no body, one that declares 15 bytes has 15.
Responses ==
    {r \in {Response(s, h, b) : s \in Statuses, h \in ResponseHeaders, b \in BodyTexts} :
        /\ (r.status = 204 \/ HeadersGet(r.headers, "Content-Length") = Str("0"))
                => r.body = ""
        /\ HeadersGet(r.headers, "Content-Length") = Str("15")
                => r.status # 204 /\ r.body = "{\"message\":\"x\"}"}

TransportErrors ==
    {Error("TypeError"), Error("AbortError")}

Settle ==
    \/ \E i \in CallIds, r \in Responses : fetchResolves(i, r)
    \/ \E i \in CallIds, e \in TransportErrors : fetchRejects(i, e)
    \/ \E i \in CallIds : jsonResolves(i)
    \/ \E i \in CallIds : jsonRejects(i)

Next ==
    \/ \E c \in ClientIds, o \in SpecConfigs : createClient(c, o)
    \/ \E i \in CallIds, c \in ClientIds, u \in SpecUrls, f \in SpecInits :
            \/ get(i, c, u, f)
            \/ put(i, c, u, f)
            \/ post(i, c, u, f)
            \/ del(i, c, u, f)
            \/ options(i, c, u, f)
            \/ head(i, c, u, f)
            \/ patch(i, c, u, f)
            \/ trace(i, c, u, f)
    \/ Settle

Spec == Init /\ [][Next]_vars

Settled(call) == call.pc \in {"resolved", "rejected"}

-----------------------------------------------------------------------------
(* SpecRequest: the request one get() call builds, over many inputs        *)

\* the synchronous part of client.get(url, init) on a client just built by
\* createClient(options): what fetch is called with
dispatch ==
    /\ probe # Undefined
    /\ probe.out = Undefined
    /\ probe' = [probe EXCEPT !.out =
            request(client(probe.options), probe.url, withMethod(probe.init, "GET"))]
    /\ UNCHANGED <<clients, calls>>

Probe(o, u, f) == [t |-> "probe", options |-> o, url |-> u, init |-> f, out |-> Undefined]

\* an object of the properties among es whose value is not undefined
Present(es) == Obj(SelectSeq(es, LAMBDA e : e.v # Undefined))

\* the sequences of at most n entries with distinct keys
Mappings(keys, values, n) ==
    UNION {{[i \in 1..m |-> Entry(f[i][1], f[i][2])] :
                f \in {g \in [1..m -> keys \X values] :
                          \A i, j \in 1..m : i # j => g[i][1] # g[j][1]}} :
            m \in 0..n}

MaxSegments == 2

Segments ==
    {<<"/">>, <<"/", "p">>, <<"/", "{", "a", "}">>, <<"/", "{", "b", "}">>}

\* path identifiers: one to MaxSegments segments
Templates ==
    UNION {{Flatten(f) : f \in [1..m -> Segments]} : m \in 1..MaxSegments}

UrlConfigs ==
    {Undefined,
     Obj(<<>>),
     Obj(<<Entry("baseUrl", Txt(<<"/", "v">>))>>),
     Obj(<<Entry("baseUrl", Txt(<<"/", "v", "/">>))>>)}

PathKeys == {"a", "b"}

PathValues ==
    {Txt(<<"x">>),
     Txt(<<" ", "x", " ">>),
     Txt(<<"?", "/", " ", "=", "U+00E9", "{", "b", "}">>),
     Num(12)}

PathMappings ==
    {Undefined} \cup {Obj(es) : es \in Mappings(PathKeys, PathValues, Cardinality(PathKeys))}

QueryMappings ==
    {Undefined,
     Obj(<<>>),
     Obj(<<Entry("q", Txt(<<"x", " ", "y">>))>>),
     Obj(<<Entry("v", Num(2))>>),
     Obj(<<Entry("q", Txt(<<"x", " ", "y">>)), Entry("v", Num(2))>>)}

Serializers == {Undefined, ReadmeSerializer}

UrlInits ==
    {Undefined} \cup
    {Present(<<Entry("params", Present(<<Entry("path", pm), Entry("query", qm)>>)),
               Entry("querySerializer", qs)>>) :
        pm \in PathMappings, qm \in QueryMappings, qs \in Serializers}

UrlProbes == {Probe(o, u, f) : o \in UrlConfigs, u \in Templates, f \in UrlInits}

MaxHeaders == 2

ConfigHeaderNames == {"Content-Type", "Cache-Control", "Authorization"}
CallHeaderNames == {"Content-Type", "Cache-Control", "cache-control", "X-Custom-Header"}

HeaderConfigs ==
    {Undefined} \cup
    {Present(<<Entry("headers", h)>>) :
        h \in {Undefined} \cup
              {Obj(es) : es \in Mappings(ConfigHeaderNames, {Str("a")}, MaxHeaders)}}

HeaderInits ==
    {Present(<<Entry("headers", h)>>) :
        h \in {Undefined} \cup
              {Obj(es) : es \in Mappings(CallHeaderNames,
                                         {Str("b"), Null, Undefined}, MaxHeaders)}}

HeaderProbes ==
    {Probe(o, <<"/", "p">>, f) : o \in HeaderConfigs, f \in HeaderInits}

InitRequest ==
    /\ clients = [c \in ClientIds |-> NoClient]
    /\ calls = [i \in CallIds |-> Idle]
    /\ probe \in UrlProbes \cup HeaderProbes

SpecRequest == InitRequest /\ [][dispatch]_vars

-----------------------------------------------------------------------------
(* Properties of the outcome of a call                                     *)

Defined(x) == x # Undefined

\* the response declares Content-Length: 0
DeclaresNoContent(r) ==
    "content-length" \in DOMAIN r.headers /\ r.headers["content-length"] = "0"

Success(status) == status >= 200 /\ status <= 299

GotResponse(call) == call.response # Undefined

\* C1: every envelope a verb call resolves with has exactly one of data and
\* error defined, and it is data exactly when the response is ok (a 2xx
\* status), whatever the status and the parsed body.
C1_ExactlyOneOfDataError ==
    \A i \in CallIds :
        calls[i].pc = "resolved" =>
            LET e == calls[i].result
                s == calls[i].response.status
            IN  /\ Defined(Prop(e, "data")) # Defined(Prop(e, "error"))
                /\ Defined(Prop(e, "data")) <=> Success(s)
                /\ Defined(Prop(e, "error")) <=> ~Success(s)

\* a call resolved on a 200 whose body is the JSON text null: data is null,
\* which is defined, and error is undefined
C1_Witness ==
    \E i \in CallIds :
        /\ calls[i].pc = "resolved"
        /\ calls[i].response.status = 200
        /\ calls[i].response.body = "null"
        /\ Prop(calls[i].result, "data") = Null
        /\ Prop(calls[i].result, "error") = Undefined

\* C2, as claimed: a call whose fetch resolved with a non-2xx response
\* resolves, whatever the body, with the body as error and no data.
C2_NonOkAlwaysResolves ==
    \A i \in CallIds :
        (GotResponse(calls[i]) /\ ~Success(calls[i].response.status)
            /\ Settled(calls[i]))
        => /\ calls[i].pc = "resolved"
           /\ Defined(Prop(calls[i].result, "error"))
           /\ ~Defined(Prop(calls[i].result, "data"))

\* C2, amended: a call whose fetch resolved with a non-2xx response that
\* declares Content-Length 0, or whose body is JSON text, resolves with {}
\* in the first case and the parsed body in the second as error, and no data.
C2_NonOkWithJsonResolves ==
    \A i \in CallIds :
        LET r == calls[i].response
        IN  (GotResponse(calls[i]) /\ ~Success(r.status) /\ Settled(calls[i])
                /\ (DeclaresNoContent(r) \/ JSONparse(r.body) # SyntaxError))
            => /\ calls[i].pc = "resolved"
               /\ Prop(calls[i].result, "error") =
                    (IF DeclaresNoContent(r) THEN Obj(<<>>) ELSE JSONparse(r.body))
               /\ ~Defined(Prop(calls[i].result, "data"))

\* a call resolved on a 404 whose body is the JSON text null
C2_Witness ==
    \E i \in CallIds :
        /\ calls[i].pc = "resolved"
        /\ calls[i].response.status = 404
        /\ calls[i].response.body = "null"
        /\ Prop(calls[i].result, "error") = Null

\* C3: when fetch rejects, the call rejects with the same failure, no
\* envelope is produced and response.json() is never called.
C3_TransportFailurePropagates ==
    \A i \in CallIds :
        Defined(calls[i].fetchError) =>
            /\ calls[i].pc = "rejected"
            /\ calls[i].reason = calls[i].fetchError
            /\ calls[i].result = Undefined
            /\ calls[i].parsed = 0

\* fetch rejected with an abort
C3_Witness ==
    \E i \in CallIds :
        /\ calls[i].fetchError = Error("AbortError")
        /\ calls[i].pc = "rejected"

\* C4: when the response is not an empty-body case and its body is not JSON
\* text, the call rejects with the parse failure, on success and failure
\* statuses alike, and nothing is put in an envelope.
C4_ParseFailurePropagates ==
    \A i \in CallIds :
        LET r == calls[i].response
        IN  (GotResponse(calls[i]) /\ Settled(calls[i])
                /\ r.status # 204 /\ ~DeclaresNoContent(r)
                /\ JSONparse(r.body) = SyntaxError)
            => /\ calls[i].pc = "rejected"
               /\ calls[i].reason = SyntaxError
               /\ calls[i].result = Undefined

\* a call rejected on a 500 whose body is HTML
C4_Witness ==
    \E i \in CallIds :
        /\ calls[i].pc = "rejected"
        /\ calls[i].response # Undefined
        /\ calls[i].response.status = 500
        /\ calls[i].response.body = "<html>"
        /\ calls[i].reason = SyntaxError

\* C5: when the status is 204 or the response declares Content-Length 0,
\* response.json() is never called and the call resolves with {} as data
\* when the response is ok and as error when it is not.
C5_EmptyBodyIsEmptyObject ==
    \A i \in CallIds :
        LET r == calls[i].response
        IN  (GotResponse(calls[i]) /\ (r.status = 204 \/ DeclaresNoContent(r)))
            => /\ calls[i].parsed = 0
               /\ calls[i].pc = "resolved"
               /\ Prop(calls[i].result, IF Success(r.status) THEN "data" ELSE "error")
                    = Obj(<<>>)
               /\ Prop(calls[i].result, IF Success(r.status) THEN "error" ELSE "data")
                    = Undefined

\* a call resolved on a 404 that declares Content-Length 0, with {} as error
C5_Witness ==
    \E i \in CallIds :
        /\ calls[i].pc = "resolved"
        /\ calls[i].response.status = 404
        /\ DeclaresNoContent(calls[i].response)
        /\ calls[i].parsed = 0
        /\ Prop(calls[i].result, "error") = Obj(<<>>)

-----------------------------------------------------------------------------
(* Properties of the request of a call                                     *)

Dispatched == probe # Undefined /\ probe.out # Undefined

\* the parts of the input of the call
ParamsGiven == IF probe.init = Undefined THEN Undefined ELSE Prop(probe.init, "params")
PathGiven == IF ParamsGiven = Undefined THEN Undefined ELSE Prop(ParamsGiven, "path")
QueryGiven == IF ParamsGiven = Undefined THEN Undefined ELSE Prop(ParamsGiven, "query")
SerializerGiven ==
    IF probe.init = Undefined THEN Undefined ELSE Prop(probe.init, "querySerializer")
HeadersGiven == IF probe.init = Undefined THEN Undefined ELSE Prop(probe.init, "headers")

PathEntries == IF PathGiven = Undefined THEN <<>> ELSE PathGiven.entries
PathKeysGiven == {PathEntries[i].k : i \in 1..Len(PathEntries)}

\* the base URL of the client, the empty text when none is configured
BaseUrlGiven ==
    IF probe.options = Undefined \/ "baseUrl" \notin Keys(probe.options)
    THEN <<>> ELSE Prop(probe.options, "baseUrl").chars

Concatenation == BaseUrlGiven \o probe.url

Placeholder(k) == <<"{">> \o KeyChars(k) \o <<"}">>

\* the dispatched URL up to its query suffix
BeforeQuery(u) == IF Contains(u, <<"?">>) THEN SubSeq(u, 1, IndexOf(u, <<"?">>) - 1) ELSE u

\* C6, as claimed: for every key of the path mapping, the dispatched URL
\* holds no occurrence of {key}.
C6_NoPlaceholderOfAKeyRemains ==
    Dispatched =>
        \A k \in PathKeysGiven : ~Contains(probe.out.url, Placeholder(k))

\* C7, as claimed: the text put in place of {key} is the percent-encoding of
\* the trimmed string form of the value, and the value brings no raw "?",
\* "/", "{" or "}" into the URL.  Stated for a mapping of one key whose
\* placeholder occurs once.
C7_TrimmedThenEncoded ==
    (Dispatched /\ Len(PathEntries) = 1
        /\ Occurrences(Concatenation, Placeholder(PathEntries[1].k)) = 1)
    => LET u == BeforeQuery(probe.out.url)
           e == PathEntries[1]
       IN  /\ u = replaceAll(Concatenation, Placeholder(e.k),
                             encodeURIComponent(trim(String(e.v))))
           /\ \A c \in {<<"/">>, <<"{">>, <<"}">>} :
                Occurrences(u, c) = Occurrences(Concatenation, c)
                    - (IF c = <<"/">> THEN 0 ELSE 1)
           /\ QueryGiven = Undefined => ~Contains(probe.out.url, <<"?">>)

\* C8: the dispatched URL is the base URL (empty when none) followed by the
\* path identifier as given: with no placeholder of a key of the path
\* mapping in it, it is sent unchanged up to the query suffix; in every case
\* the text before the first placeholder, the number of slashes and the
\* placeholders of keys not in the mapping are kept.
C8_ConcatenatedVerbatim ==
    Dispatched =>
        LET u == BeforeQuery(probe.out.url)
            first == IndexOf(Concatenation, <<"{">>)
        IN  /\ (\A k \in PathKeysGiven : ~Contains(Concatenation, Placeholder(k)))
                    => u = Concatenation
            /\ first # 0 => SubSeq(u, 1, first - 1) = SubSeq(Concatenation, 1, first - 1)
            /\ Occurrences(u, <<"/">>) = Occurrences(Concatenation, <<"/">>)
            /\ \A k \in PathKeys \ PathKeysGiven :
                    Occurrences(u, Placeholder(k)) = Occurrences(Concatenation, Placeholder(k))

\* base URL "/v/" and path "//{b}" with only a in the mapping: the slashes
\* and the placeholder are sent as they are
C8_Witness ==
    /\ Dispatched
    /\ BaseUrlGiven = <<"/", "v", "/">>
    /\ probe.url = <<"/", "/", "{", "b", "}">>
    /\ PathKeysGiven = {"a"}
    /\ probe.out.url = <<"/", "v", "/", "/", "/", "{", "b", "}">>

\* the input of the call without its query mapping
WithoutQuery ==
    IF QueryGiven = Undefined THEN probe.init
    ELSE Assign(probe.init, "params", Rest(ParamsGiven, {"query"}))

\* C9: with a non-empty query mapping the dispatched URL is the URL of the
\* same call without the mapping, then "?", then the result of the one
\* invocation of the serializer (the caller's when given, URLSearchParams
\* otherwise) on the mapping; with an empty or absent mapping the URL has
\* no "?" and the serializer is not invoked.
C9_QuerySuffix ==
    Dispatched =>
        LET plain == request(client(probe.options), probe.url,
                             withMethod(WithoutQuery, "GET")).url
            fn == IF SerializerGiven = Undefined THEN DefaultSerializer
                  ELSE SerializerGiven
        IN  IF QueryGiven # Undefined /\ QueryGiven.entries # <<>>
            THEN /\ probe.out.serialized = <<[fn |-> fn, q |-> QueryGiven]>>
                 /\ probe.out.url =
                        plain \o <<"?">>
                            \o (IF fn = ReadmeSerializer THEN readmeSerializer(QueryGiven)
                                ELSE URLSearchParams(QueryGiven.entries))
            ELSE /\ probe.out.serialized = <<>>
                 /\ probe.out.url = plain
                 /\ ~Contains(probe.out.url, <<"?">>)

\* the mapping { q: "x y", v: 2 } under the default serializer
C9_Witness ==
    /\ Dispatched
    /\ SerializerGiven = Undefined
    /\ probe.options = Undefined
    /\ probe.url = <<"/", "p">>
    /\ probe.out.url = <<"/", "p", "?", "q", "=", "x", "+", "y", "&", "v", "=", "2">>
    /\ Len(probe.out.serialized) = 1

\* the headers given to fetch
HeadersSent == Prop(probe.out.init, "headers").map

HeaderEntriesGiven == IF HeadersGiven = Undefined THEN <<>> ELSE HeadersGiven.entries

\* the lower-case names of the per-call entries, and of those with a value
NamedByCall == {Lower(HeaderEntriesGiven[i].k) : i \in 1..Len(HeaderEntriesGiven)}
SetByCall ==
    {Lower(HeaderEntriesGiven[i].k) :
        i \in {j \in 1..Len(HeaderEntriesGiven) : ~IsNullish(HeaderEntriesGiven[j].v)}}

\* C10, as claimed: the headers sent are the default headers of the client
\* with the per-call entries on top: each per-call entry with a non-null
\* value is sent with that value, each default not named by a per-call entry
\* is sent with its default value, and nothing else is sent.
C10_HeadersAreDefaultsWithOverrides ==
    Dispatched =>
        LET defaults == defaultHeaders(probe.options)
        IN  /\ \A i \in 1..Len(HeaderEntriesGiven) :
                    ~IsNullish(HeaderEntriesGiven[i].v) =>
                        /\ Lower(HeaderEntriesGiven[i].k) \in DOMAIN HeadersSent
                        /\ HeadersSent[Lower(HeaderEntriesGiven[i].k)]
                                = HeaderEntriesGiven[i].v.text
            /\ \A n \in DOMAIN defaults \ NamedByCall :
                    n \in DOMAIN HeadersSent /\ HeadersSent[n] = defaults[n]
            /\ DOMAIN HeadersSent = SetByCall \cup (DOMAIN defaults \ NamedByCall)


-----------------------------------------------------------------------------
(* SpecOptions: one client and the calls of its eight callables, over       *)
(* configs and call options that carry headers, bodies and fetch options    *)

\* an AbortSignal, which the code hands on as it is
Signal == [t |-> "AbortSignal", aborted |-> FALSE]

OptionConfigs ==
    {Undefined,
     Obj(<<Entry("headers", Obj(<<Entry("Authorization", Str("a"))>>))>>),
     Obj(<<Entry("headers", Obj(<<Entry("Content-Type", Str("text/plain"))>>))>>),
     Obj(<<Entry("headers", Obj(<<Entry("content-type", Str("text/plain"))>>))>>),
     Obj(<<Entry("baseUrl", Txt(<<"/", "v">>)), Entry("method", Str("PUT")),
           Entry("redirect", Str("error")), Entry("credentials", Str("include"))>>)}

OptionInits ==
    {Undefined,
     Obj(<<Entry("body", Obj(<<Entry("message", Str("x"))>>))>>),
     Obj(<<Entry("body", Str("{\"message\":\"x\"}"))>>),
     Obj(<<Entry("body", Null), Entry("redirect", Str("manual"))>>),
     Obj(<<Entry("body", Num(0)), Entry("cache", Str("reload"))>>),
     Obj(<<Entry("method", Str("POST")), Entry("signal", Signal),
           Entry("credentials", Str("omit"))>>),
     Obj(<<Entry("redirect", Undefined), Entry("mode", Str("cors"))>>),
     Obj(<<Entry("headers", Obj(<<Entry("Content-Type", Str("b"))>>))>>)}

OptionUrls == {<<"/", "p">>}

NextOptions ==
    \/ \E c \in ClientIds, o \in OptionConfigs : createClient(c, o)
    \/ \E i \in CallIds, c \in ClientIds, u \in OptionUrls, f \in OptionInits :
            \/ get(i, c, u, f)
            \/ put(i, c, u, f)
            \/ post(i, c, u, f)
            \/ del(i, c, u, f)
            \/ options(i, c, u, f)
            \/ head(i, c, u, f)
            \/ patch(i, c, u, f)
            \/ trace(i, c, u, f)

SpecOptions == Init /\ [][NextOptions]_vars

-----------------------------------------------------------------------------
(* Properties of headers, body, options and method                         *)

\* C11, as claimed: a header that the per-call entries name only with null
\* or undefined is not among the headers sent, whether or not it is one of
\* the client's defaults.
C11_NullishRemovesHeader ==
    Dispatched => (NamedByCall \ SetByCall) \cap DOMAIN HeadersSent = {}

Issued(call) == call.pc # "idle"

\* the header entries of a config, none when it has no headers
ConfigHeaderEntries(config) ==
    IF config = Undefined \/ "headers" \notin Keys(config) THEN <<>>
    ELSE Prop(config, "headers").entries

\* C12, as claimed: the default headers of a client are the baseline
\* Content-Type: application/json with the config's header entries over it:
\* each config header is there with its config value (which alone replaces
\* the baseline's when it names Content-Type), the baseline is there when the
\* config does not name it, and there is nothing else.
C12_DefaultsAreBaselineWithConfig ==
    \A c \in DOMAIN clients :
        clients[c] # NoClient =>
            LET es == ConfigHeaderEntries(clients[c].given)
                named == {Lower(es[i].k) : i \in 1..Len(es)}
                dh == clients[c].defaultHeaders
            IN  /\ \A i \in 1..Len(es) :
                        Lower(es[i].k) \in DOMAIN dh /\ dh[Lower(es[i].k)] = es[i].v.text
                /\ "content-type" \notin named =>
                        ("content-type" \in DOMAIN dh
                            /\ dh["content-type"] = "application/json")
                /\ DOMAIN dh = named \cup {"content-type"}

\* the body the caller gave, and the body given to fetch
BodyGiven(call) == Prop(call.init, "body")
BodySent(call) == Prop(call.request.init, "body")

\* C14: a body that is a string is sent as it is; any other body is sent as
\* a JSON text that parses back to it; with no body, none is sent.
C14_BodyEncoded ==
    \A i \in DOMAIN calls :
        Issued(calls[i]) =>
            LET b == BodyGiven(calls[i])
                sent == BodySent(calls[i])
            IN  CASE b = Undefined -> sent = Undefined
                  [] b.t = "str" -> sent = b
                  [] OTHER -> sent.t = "str" /\ JSONparse(sent.text) = b

\* the object { message: "x" } is sent as its JSON text
C14_Witness ==
    \E i \in DOMAIN calls :
        /\ Issued(calls[i])
        /\ BodyGiven(calls[i]) = Obj(<<Entry("message", Str("x"))>>)
        /\ BodySent(calls[i]) = Str("{\"message\":\"x\"}")

\* the request options the code hands on to fetch untouched
PassThrough == {"redirect", "credentials", "cache", "mode", "signal"}

Baseline(k) == IF k = "redirect" THEN Str("follow") ELSE Undefined

\* the config of the client a call was made on
ConfigOf(call) ==
    IF clients[call.client].given = Undefined THEN Obj(<<>>)
    ELSE clients[call.client].given

\* C15: each pass-through option reaches fetch with the value of the call
\* options when they have the property, else with the value of the config
\* when it has the property, else with the baseline (redirect: 'follow' and
\* nothing else).
C15_CallThenConfigThenBaseline ==
    \A i \in DOMAIN calls :
        Issued(calls[i]) =>
            \A k \in PassThrough :
                Prop(calls[i].request.init, k) =
                    (IF k \in Keys(calls[i].init) THEN Prop(calls[i].init, k)
                     ELSE IF k \in Keys(ConfigOf(calls[i])) THEN Prop(ConfigOf(calls[i]), k)
                     ELSE Baseline(k))

\* a call with its own credentials and an abort signal on a client whose
\* config has redirect and credentials: the call's credentials and signal and
\* the config's redirect reach fetch
C15_Witness ==
    \E i \in DOMAIN calls :
        /\ Issued(calls[i])
        /\ Prop(ConfigOf(calls[i]), "credentials") = Str("include")
        /\ Prop(calls[i].init, "credentials") = Str("omit")
        /\ Prop(calls[i].request.init, "credentials") = Str("omit")
        /\ Prop(calls[i].request.init, "redirect") = Str("error")
        /\ Prop(calls[i].request.init, "signal") = Signal

\* the callables of a client and the HTTP method of each
Callables == {"get", "put", "post", "del", "options", "head", "patch", "trace"}

MethodOf(verb) ==
    CASE verb = "get" -> "GET"
      [] verb = "put" -> "PUT"
      [] verb = "post" -> "POST"
      [] verb = "del" -> "DELETE"
      [] verb = "options" -> "OPTIONS"
      [] verb = "head" -> "HEAD"
      [] verb = "patch" -> "PATCH"
      [] verb = "trace" -> "TRACE"

\* C16: every call is a call of one of the eight callables and is dispatched
\* with the method of its callable, whatever method the config or the call
\* options hold.
C16_MethodFixedByCallable ==
    \A i \in DOMAIN calls :
        Issued(calls[i]) =>
            /\ calls[i].verb \in Callables
            /\ Prop(calls[i].request.init, "method") = Str(MethodOf(calls[i].verb))

\* del() with method: 'POST' among its options, on a client whose config has
\* method: 'PUT', is dispatched with DELETE
C16_Witness ==
    \E i \in DOMAIN calls :
        /\ Issued(calls[i])
        /\ calls[i].verb = "del"
        /\ Prop(ConfigOf(calls[i]), "method") = Str("PUT")
        /\ calls[i].init =
                withMethod(Obj(<<Entry("method", Str("POST")), Entry("signal", Signal),
                                 Entry("credentials", Str("omit"))>>), "DELETE")
        /\ Prop(calls[i].request.init, "method") = Str("DELETE")

-----------------------------------------------------------------------------
(* SpecCalls: calls on one client that overlap at their awaits              *)

MaxIssued == 2

IssuedIds == 1..MaxIssued

InitCalls ==
    /\ clients = [c \in ClientIds |-> NoClient]
    /\ calls = [i \in IssuedIds |-> Idle]
    /\ probe = Undefined

CallConfigs ==
    {Undefined,
     Obj(<<Entry("headers", Obj(<<Entry("Authorization", Str("a")),
                                  Entry("Cache-Control", Str("a"))>>))>>)}

CallInits ==
    {Obj(<<>>),
     Obj(<<Entry("headers", Obj(<<Entry("Cache-Control", Str("b"))>>))>>),
     Obj(<<Entry("headers", Obj(<<Entry("Authorization", Null),
                                  Entry("Content-Type", Str("b"))>>))>>)}

CallResponses ==
    {Response(200, EmptyHeaders, "{\"message\":\"x\"}"),
     Response(204, EmptyHeaders, "")}

NextCalls ==
    \/ \E c \in ClientIds, o \in CallConfigs : createClient(c, o)
    \/ \E i \in IssuedIds, c \in ClientIds, f \in CallInits :
            \/ get(i, c, <<"/", "p">>, f)
            \/ post(i, c, <<"/", "p">>, f)
    \/ \E i \in IssuedIds, r \in CallResponses : fetchResolves(i, r)
    \/ \E i \in IssuedIds : jsonResolves(i)

SpecCalls == InitCalls /\ [][NextCalls]_vars

-----------------------------------------------------------------------------
(* SpecClients: several clients, whose config objects the caller changes    *)
(* after construction                                                       *)

MaxBuilt == 2

BuiltIds == 1..MaxBuilt

InitClients ==
    /\ clients = [c \in BuiltIds |-> NoClient]
    /\ calls = [i \in CallIds |-> Idle]
    /\ probe = Undefined

\* the caller assigns options[k] = v on the object it gave to createClient,
\* which the client closes over (lines 46, 56 and 75); here once per client
assign(c, k, v) ==
    /\ clients[c] # NoClient
    /\ clients[c].options # Undefined
    /\ clients[c].options = clients[c].given
    /\ clients' = [clients EXCEPT ![c].options = Assign(@, k, v)]
    /\ UNCHANGED <<calls, probe>>

BuiltConfigs ==
    {Obj(<<>>),
     Obj(<<Entry("baseUrl", Txt(<<"/", "v">>)),
           Entry("headers", Obj(<<Entry("Authorization", Str("a"))>>))>>)}

Assignments ==
    {Entry("baseUrl", Txt(<<"/", "w">>)),
     Entry("headers", Obj(<<Entry("Authorization", Str("z"))>>)),
     Entry("redirect", Str("manual"))}

BuiltInits ==
    {Obj(<<>>),
     Obj(<<Entry("headers", Obj(<<Entry("Cache-Control", Str("b"))>>))>>)}

NextClients ==
    \/ \E c \in BuiltIds, o \in BuiltConfigs : createClient(c, o)
    \/ \E c \in BuiltIds, a \in Assignments : assign(c, a.k, a.v)
    \/ \E i \in CallIds, c \in BuiltIds, f \in BuiltInits :
            get(i, c, <<"/", "p">>, f)

SpecClients == InitClients /\ [][NextClients]_vars

-----------------------------------------------------------------------------
(* Properties of calls that share a client, and of clients side by side    *)

\* the headers a call gave to fetch
SentHeaders(call) == Prop(call.request.init, "headers").map

\* the request a call would give to fetch on a client just built from the
\* config its own client was built from
Alone(call) == request(client(clients[call.client].given), call.url, call.init)

\* C13: the default headers of a client stay what createClient computed from
\* the config, whatever calls were made and however they overlap, and every
\* call gives fetch the headers it would give were it the only call on its
\* client.
C13_DefaultsNeverChangedByCalls ==
    /\ \A c \in DOMAIN clients :
            clients[c] # NoClient =>
                clients[c].defaultHeaders = defaultHeaders(clients[c].given)
    /\ \A i \in DOMAIN calls :
            Issued(calls[i]) =>
                SentHeaders(calls[i]) = Prop(Alone(calls[i]).init, "headers").map

\* a call that overrides Authorization and Content-Type is waiting for fetch
\* while a later call without overrides on the same client is dispatched
\* with the defaults
C13_Witness ==
    \E i, j \in DOMAIN calls :
        /\ i < j
        /\ calls[i].pc = "fetch" /\ Issued(calls[j])
        /\ calls[i].client = calls[j].client
        /\ "headers" \in Keys(calls[i].init)
        /\ SentHeaders(calls[i])["content-type"] = "b"
        /\ "headers" \notin Keys(calls[j].init)
        /\ SentHeaders(calls[j]) =
                [n \in {"authorization", "cache-control", "content-type"} |->
                    IF n = "content-type" THEN "application/json" ELSE "a"]

NamedIn(call) ==
    LET h == Prop(call.init, "headers")
    IN  IF h = Undefined THEN {} ELSE {Lower(h.entries[i].k) : i \in 1..Len(h.entries)}

\* C19: whatever clients were built before or after, the headers of a call
\* that its options do not name are the default headers of the config its
\* own client was built from; so an Authorization header is sent exactly by
\* the calls on clients built with one.
C19_OnlyOwnDefaults ==
    \A i \in DOMAIN calls :
        Issued(calls[i]) =>
            LET own == defaultHeaders(clients[calls[i].client].given)
                sent == SentHeaders(calls[i])
                es == ConfigHeaderEntries(clients[calls[i].client].given)
            IN  /\ DOMAIN sent \ NamedIn(calls[i]) = DOMAIN own \ NamedIn(calls[i])
                /\ \A n \in DOMAIN own \ NamedIn(calls[i]) : sent[n] = own[n]
                /\ "authorization" \notin NamedIn(calls[i]) =>
                        ("authorization" \in DOMAIN sent
                            <=> \E e \in 1..Len(es) : es[e].k = "Authorization")

\* two clients, the first built without headers and the second with
\* Authorization: a call on the first is dispatched without Authorization
C19_Witness ==
    \E i \in DOMAIN calls :
        /\ Issued(calls[i])
        /\ calls[i].client = 1
        /\ clients[1].given = Obj(<<>>)
        /\ clients[2] # NoClient
        /\ ConfigHeaderEntries(clients[2].given) # <<>>
        /\ "authorization" \in DOMAIN clients[2].defaultHeaders
        /\ "authorization" \notin DOMAIN SentHeaders(calls[i])

\* C20, as claimed: the request of every call is the one built from the
\* config as it was when createClient was called, whatever the caller
\* assigned to the config object since.
C20_ConfigFixedAtConstruction ==
    \A i \in DOMAIN calls :
        Issued(calls[i]) => calls[i].request = Alone(calls[i])

-----------------------------------------------------------------------------
(* Properties of the response member of an envelope                        *)

\* the members of the Response interface of the Fetch standard: those that
\* describe the response, and those that read or hand on its body
ResponseMetadata ==
    {"status", "statusText", "ok", "headers", "url", "redirected", "type", "bodyUsed"}
BodyAccessors == {"json", "text", "blob", "arrayBuffer", "formData", "body", "clone"}

\* the members an object exposes: line 83 puts the Response that fetch
\* resolved with into the envelope, and a Response has all of its interface
Members(x) ==
    IF x.t = "Response" THEN ResponseMetadata \cup BodyAccessors
    ELSE IF x.t = "obj" THEN Keys(x)
    ELSE {}

\* C18, as claimed: the response member of every envelope has the metadata
\* of the response fetch resolved with, with the same status and headers,
\* and none of the body accessors.
C18_ResponseIsProjection ==
    \A i \in CallIds :
        calls[i].pc = "resolved" =>
            LET r == Prop(calls[i].result, "response")
            IN  /\ ResponseMetadata \subseteq Members(r)
                /\ r.status = calls[i].response.status
                /\ r.headers = calls[i].response.headers
                /\ Members(r) \cap BodyAccessors = {}

-----------------------------------------------------------------------------
(* Properties of the order of the steps of a call                          *)

\* what holds of a call at every moment: fetch has been called once, with a
\* complete request, as soon as the call is made and never before;
\* response.json() is called at most once and only on a response fetch
\* resolved with; an envelope exists only in a resolved call, after the
\* response and, unless the body is taken as empty, after the parse
OneRequestInOrder(call) ==
    /\ call.fetched = (IF call.pc = "idle" THEN 0 ELSE 1)
    /\ call.pc # "idle" =>
            /\ call.request # Undefined
            /\ call.request.url # <<>>
            /\ {"method", "headers", "body"} \subseteq Keys(call.request.init)
    /\ call.parsed <= 1
    /\ call.parsed = 1 => call.response # Undefined
    /\ call.pc = "json" => call.parsed = 1 /\ call.result = Undefined
    /\ call.result # Undefined <=> call.pc = "resolved"
    /\ call.pc = "resolved" =>
            /\ call.response # Undefined
            /\ call.parsed = (IF emptyBody(call.response) THEN 0 ELSE 1)
    /\ call.pc = "rejected" =>
            (call.response = Undefined <=> call.fetchError # Undefined)

\* C21: in every step and every outcome a call has made exactly one request,
\* built in full before fetch was called; the body is parsed only after
\* fetch resolved, the envelope comes only after both, and no step of a call
\* already made calls fetch again or changes its request.
C21_OneRequestPerCall ==
    [][\A i \in CallIds :
            /\ OneRequestInOrder(calls[i])'
            /\ calls[i].pc # "idle" =>
                    /\ calls'[i].fetched = calls[i].fetched
                    /\ calls'[i].request = calls[i].request
                    /\ calls'[i].parsed >= calls[i].parsed]_vars

\* a call rejected by the parse of a 500 response: one request, one parse
C21_Witness ==
    \E i \in CallIds :
        /\ calls[i].pc = "rejected"
        /\ calls[i].response # Undefined
        /\ calls[i].response.status = 500
        /\ calls[i].fetched = 1
        /\ calls[i].parsed = 1
        /\ calls[i].result = Undefined

-----------------------------------------------------------------------------
(* SpecOrder: one get() over templates and path mappings whose            *)
(* placeholders and values run into each other                             *)

OrderSegments ==
    {<<"/", "{", "a", "}">>, <<"/", "{", "b", "}">>,
     <<"/", "{", "{", "a", "}", "}">>, <<"/", "{", "{", "a", "}">>}

\* one to MaxSegments segments
OrderTemplates ==
    UNION {{Flatten(f) : f \in [1..m -> OrderSegments]} : m \in 1..MaxSegments}

OrderKeys == {"a", "b", "{a"}

OrderValues == {Txt(<<"x">>), Txt(<<"b">>), Txt(<<"{", "b", "}">>)}

OrderProbes ==
    {Probe(Undefined, u, Obj(<<Entry("params", Obj(<<Entry("path", Obj(es))>>))>>)) :
        u \in OrderTemplates, es \in Mappings(OrderKeys, OrderValues, 2)}

InitOrder ==
    /\ clients = [c \in ClientIds |-> NoClient]
    /\ calls = [i \in CallIds |-> Idle]
    /\ probe \in OrderProbes

SpecOrder == InitOrder /\ [][dispatch]_vars

RECURSIVE Reverse(_)
Reverse(s) == IF s = <<>> THEN <<>> ELSE Append(Reverse(Tail(s)), Head(s))

\* the URL of the same call with the entries of its path mapping in the
\* opposite order
ReversedURL ==
    request(client(probe.options), probe.url,
            withMethod(Obj(<<Entry("params",
                                   Obj(<<Entry("path", Obj(Reverse(PathEntries)))>>))>>),
                       "GET")).url

\* C22, as claimed: the dispatched URL is the same whatever the order of the
\* keys of the path mapping.
C22_OrderIndependent ==
    Dispatched => probe.out.url = ReversedURL

-----------------------------------------------------------------------------
(* Properties of the case of header names                                  *)

\* the values the per-call entries give to the header named n, as Headers
\* stores them, and the value the config or else the baseline gives to it
CallValues(n) ==
    {ByteString(HeaderEntriesGiven[i].v) :
        i \in {j \in 1..Len(HeaderEntriesGiven) : Lower(HeaderEntriesGiven[j].k) = n}}

DefaultValues(n) ==
    LET es == ConfigHeaderEntries(probe.options)
        given == {es[i].v.text : i \in {j \in 1..Len(es) : Lower(es[j].k) = n}}
    IN  IF given # {} THEN given
        ELSE IF n = "content-type" THEN {"application/json"} ELSE {}

\* C23, as claimed: a header the per-call entries name, in whatever case, is
\* sent with a per-call value and not with the default's, and every header
\* sent has one single value, a per-call one or a default one, never a
\* combination.
C23_OneValuePerName ==
    Dispatched =>
        \A n \in DOMAIN HeadersSent :
            IF CallValues(n) # {} THEN HeadersSent[n] \in CallValues(n)
            ELSE HeadersSent[n] \in DefaultValues(n)

=============================================================================
